---- MODULE Spec2Model ----
(***************************************************************************)
(* Bill Calculator Pro: the BillManager (in-memory collection, filter,     *)
(* sort, totals), the Bill record and the ApiService that simulates a      *)
(* remote store over localStorage with a timer delay.                      *)
(*                                                                         *)
(* Abstractions.  Amounts are whole numbers (the unit is the smallest one  *)
(* the form accepts), so the rounding of binary floating point is not      *)
(* modelled.  A JavaScript object is a record of its property reads: a     *)
(* property JSON.stringify omits reads as undefined afterwards, exactly as *)
(* it did before.  All timers have the same delay, so they fire in the     *)
(* order they were set.                                                    *)
(***************************************************************************)
EXTENDS Integers, Sequences, FiniteSets, TLC

\* ------------------------------------------------------------------------
\* Bounds of the model
\* ------------------------------------------------------------------------
MaxBills == 3    \* addBill is not called on a collection of this length
MaxCalls == 4    \* store-touching manager calls in one behaviour
MaxClock == 1    \* milliseconds that pass between two timers

\* ------------------------------------------------------------------------
\* JavaScript values
\* ------------------------------------------------------------------------
Undefined == "undefined"                 \* the value undefined (never a string of the model)

Num(n) == [t |-> "number", n |-> n, s |-> <<>>]
NaN == [t |-> "NaN", n |-> 0, s |-> <<>>]
Null == [t |-> "null", n |-> 0, s |-> <<>>]
Undef == [t |-> "undefined", n |-> 0, s |-> <<>>]
Str(cs) == [t |-> "string", n |-> 0, s |-> cs]   \* cs: the characters

Digits == <<"0", "1", "2", "3", "4", "5", "6", "7", "8", "9">>

IsDigit(c) == \E i \in 1..10 : Digits[i] = c

DigitValue(c) == (CHOOSE i \in 1..10 : Digits[i] = c) - 1

\* Number.prototype.toString of a non-negative integer
RECURSIVE toString(_)
toString(n) == IF n < 10 THEN Digits[n + 1]
               ELSE toString(n \div 10) \o Digits[(n % 10) + 1]

\* the value of the longest prefix of cs made of digits, read after acc
RECURSIVE DigitPrefix(_, _)
DigitPrefix(cs, acc) ==
    IF cs = <<>> \/ ~IsDigit(Head(cs)) THEN acc
    ELSE DigitPrefix(Tail(cs), 10 * acc + DigitValue(Head(cs)))

\* parseFloat: the number a string begins with, NaN when it begins with none;
\* an argument that is not a string is converted to one first
parseFloat(x) ==
    CASE x.t = "number" -> x
      [] x.t = "string" -> IF x.s # <<>> /\ IsDigit(Head(x.s))
                           THEN Num(DigitPrefix(x.s, 0)) ELSE NaN
      [] OTHER -> NaN

\* ToBoolean of a string-or-undefined property
Truthy(s) == s # Undefined /\ s # ""

\* a || b on string-or-undefined operands
OrElse(a, b) == IF Truthy(a) THEN a ELSE b

\* x || 0 on a number
OrZero(x) == IF x.t = "number" /\ x.n # 0 THEN x ELSE Num(0)

\* a - b and a + b on numbers: NaN when an operand is NaN
JsSub(a, b) == IF a.t = "number" /\ b.t = "number" THEN Num(a.n - b.n) ELSE NaN

JsAdd(a, b) == IF a.t = "number" /\ b.t = "number" THEN Num(a.n + b.n) ELSE NaN

\* ------------------------------------------------------------------------
\* Bill
\* ------------------------------------------------------------------------
\* new Bill({id, type, name, paymentMethod, amount, currency, status}) at time now
Bill(d, clock) ==
    [id |-> OrElse(d.id, toString(clock)),
     type |-> d.type,
     name |-> d.name,
     paymentMethod |-> d.paymentMethod,
     status |-> OrElse(d.status, "Pending"),
     amount |-> [value |-> OrZero(parseFloat(d.amount)),
                 currency |-> OrElse(d.currency, "EUR")]]

\* ------------------------------------------------------------------------
\* Inputs
\* ------------------------------------------------------------------------
\* the constructor arguments that callers pass to new Bill(...)
BillForms ==
    { [id |-> "b1", type |-> "Energy", name |-> Undefined, paymentMethod |-> "Card",
       amount |-> Str(<<"x">>), currency |-> Undefined, status |-> Undefined],
      [id |-> Undefined, type |-> "Streaming", name |-> "Disney", paymentMethod |-> "Debit",
       amount |-> Num(5), currency |-> "USD", status |-> "Paid"],
      [id |-> "b1", type |-> "Broadband", name |-> "", paymentMethod |-> "Cash",
       amount |-> Str(<<"5", "x">>), currency |-> Undefined, status |-> "Unpaid"] }

\* the amount and status of the updatedData that callers pass to updateBill
Patches ==
    { [amount |-> Str(<<"2", "0">>), status |-> "Paid"],
      [amount |-> Str(<<>>), status |-> "Unpaid"],
      [amount |-> Num(7), status |-> Undefined] }

AbsentId == "zz"                         \* an id no Bill is given

Filters == {"All", "Paid", "Unpaid", "Pending"}

Sorts == {"default", "amount-high-low", "amount-low-high", "name-az"}

\* the strings of the model in the order localeCompare puts them
Collation == <<"Broadband", "Disney", "Energy", "Streaming">>

Rank(s) == CHOOSE i \in 1..Len(Collation) : Collation[i] = s

\* a.localeCompare(b): negative, zero or positive
localeCompare(a, b) == Rank(a) - Rank(b)

\* ------------------------------------------------------------------------
\* ApiService: the store
\* ------------------------------------------------------------------------
delay == 500                             \* _delay, in milliseconds

SaveError == "Simulated Network Error during save!"

NoItem == [item |-> FALSE, text |-> <<>>]     \* localStorage without the key

\* JSON.stringify of a number: NaN has no JSON form and is written null
JSONnumber(x) == IF x.t = "number" THEN x ELSE Null

\* JSON.stringify(billsData): the text, as the sequence of objects it denotes
JSONstringify(data) ==
    [i \in 1..Len(data) |->
        [data[i] EXCEPT !.amount = [value |-> JSONnumber(data[i].amount.value),
                                    currency |-> data[i].amount.currency]]]

\* JSON.parse(text)
JSONparse(text) == [i \in 1..Len(text) |-> text[i]]

\* fetchBills, when its timer fires: the value the promise resolves with
fetchBillsValue(store) == IF store.item THEN JSONparse(store.text) ELSE <<>>

\* saveBills that resolves whatever the flag is
saveBillsSettlesAlways(flag) == "resolved"

\* saveBills, when its timer fires: how the promise settles
saveBillsSettles(flag) == IF flag THEN "rejected" ELSE "resolved"

\* saveBills that writes before it looks at the flag
saveBillsStoreFirst(flag, store, data) == [item |-> TRUE, text |-> JSONstringify(data)]

\* saveBills, when its timer fires: localStorage afterwards
saveBillsStore(flag, store, data) ==
    IF flag THEN store ELSE [item |-> TRUE, text |-> JSONstringify(data)]

\* ------------------------------------------------------------------------
\* BillManager: the functions of the collection
\* ------------------------------------------------------------------------
\* _saveBillsToLocalStorage: bills.map(bill => ({id, type, name, ...}))
billsPlainData(bs) ==
    [i \in 1..Len(bs) |->
        [id |-> bs[i].id, type |-> bs[i].type, name |-> bs[i].name,
         paymentMethod |-> bs[i].paymentMethod, status |-> bs[i].status,
         amount |-> bs[i].amount]]

\* _loadBillsFromLocalStorage: plainBills.map(billData => new Bill({...}))
rehydrate(plainBills, clock) ==
    [i \in 1..Len(plainBills) |->
        Bill([id |-> plainBills[i].id, type |-> plainBills[i].type,
              name |-> plainBills[i].name,
              paymentMethod |-> plainBills[i].paymentMethod,
              status |-> plainBills[i].status,
              amount |-> plainBills[i].amount.value,
              currency |-> plainBills[i].amount.currency], clock)]

\* an addBill that puts the new bill first: this.bills.unshift(newBill)
pushBillFirst(bs, newBill) == <<newBill>> \o bs

\* addBill: this.bills.push(newBill)
pushBill(bs, newBill) == Append(bs, newBill)

\* a deleteBill that removes the first bill with the id only
RECURSIVE filterOutFirstId(_, _)
filterOutFirstId(bs, id) ==
    IF bs = <<>> THEN <<>>
    ELSE IF Head(bs).id = id THEN Tail(bs)
    ELSE <<Head(bs)>> \o filterOutFirstId(Tail(bs), id)

\* deleteBill: this.bills.filter(bill => bill.id !== id)
filterOutId(bs, id) == SelectSeq(bs, LAMBDA bill : bill.id # id)

\* an updateBill that builds the amount anew, without ...bill.amount
updatedBillNoSpread(bill, updatedData) ==
    [id |-> bill.id, type |-> bill.type, name |-> bill.name,
     paymentMethod |-> bill.paymentMethod,
     amount |-> [value |-> parseFloat(updatedData.amount), currency |-> Undefined],
     status |-> updatedData.status]

\* updateBill: the object returned for a bill whose id matches
updatedBill(bill, updatedData) ==
    [id |-> bill.id, type |-> bill.type, name |-> bill.name,
     paymentMethod |-> bill.paymentMethod,
     amount |-> [value |-> parseFloat(updatedData.amount),
                 currency |-> bill.amount.currency],
     status |-> updatedData.status]

\* updateBill: this.bills.map(bill => bill.id === updatedData.id ? {...} : bill)
mapUpdate(bs, updatedData) ==
    [i \in 1..Len(bs) |->
        IF bs[i].id = updatedData.id THEN updatedBill(bs[i], updatedData) ELSE bs[i]]

\* getDisplayBills: the filtering
filteredBills(bs, filter) ==
    IF filter = "All" THEN bs
    ELSE SelectSeq(bs, LAMBDA bill : bill.status = filter)

\* a name sort by the type alone
nameKeyType(bill) == bill.type

\* getDisplayBills: the key of the name sort, a.name || a.type
nameKey(bill) == OrElse(bill.name, bill.type)

\* a comparator whose default case falls through to the name sort
compareBillsFallThrough(a, b, sort) ==
    CASE sort = "amount-high-low" ->
            LET v == JsSub(b.amount.value, a.amount.value)
            IN  IF v.t = "number" THEN v.n ELSE 0
      [] sort = "amount-low-high" ->
            LET v == JsSub(a.amount.value, b.amount.value)
            IN  IF v.t = "number" THEN v.n ELSE 0
      [] OTHER -> localeCompare(OrElse(a.name, a.type), OrElse(b.name, b.type))

\* getDisplayBills: the comparator; a NaN it returns counts as +0 in sort
compareBills(a, b, sort) ==
    CASE sort = "amount-high-low" ->
            LET v == JsSub(b.amount.value, a.amount.value)
            IN  IF v.t = "number" THEN v.n ELSE 0
      [] sort = "amount-low-high" ->
            LET v == JsSub(a.amount.value, b.amount.value)
            IN  IF v.t = "number" THEN v.n ELSE 0
      [] sort = "name-az" -> localeCompare(nameKey(a), nameKey(b))
      [] OTHER -> 0

\* ECMAScript: the comparator is a consistent comparator for the elements of s
ConsistentComparator(s, sort) ==
    LET E == {s[i] : i \in 1..Len(s)}
        c(a, b) == compareBills(a, b, sort)
    IN  \A a \in E : \A b \in E :
          /\ (c(a, b) = 0) = (c(b, a) = 0)
          /\ (c(a, b) < 0) = (c(b, a) > 0)
          /\ \A x \in E :
               /\ (c(a, b) = 0 /\ c(b, x) = 0) => c(a, x) = 0
               /\ (c(a, b) < 0 /\ c(b, x) < 0) => c(a, x) < 0
               /\ (c(a, b) > 0 /\ c(b, x) > 0) => c(a, x) > 0

\* x put into the sorted s after every element that does not come after it
RECURSIVE InsertSorted(_, _, _)
InsertSorted(s, x, sort) ==
    IF s = <<>> THEN <<x>>
    ELSE IF compareBills(x, Head(s), sort) < 0 THEN <<x>> \o s
    ELSE <<Head(s)>> \o InsertSorted(Tail(s), x, sort)

\* the stable sort of s: the order Array.prototype.sort gives with a consistent
\* comparator
RECURSIVE StableSort(_, _)
StableSort(s, sort) ==
    IF s = <<>> THEN <<>>
    ELSE InsertSorted(StableSort(SubSeq(s, 1, Len(s) - 1), sort), s[Len(s)], sort)

\* the orders of the elements of s
Arrangements(s) ==
    LET n == Len(s)
        P == {p \in [1..n -> 1..n] : \A i \in 1..n : \E j \in 1..n : p[j] = i}
    IN  {[i \in 1..n |-> s[p[i]]] : p \in P}

\* [...s].sort(comparator): the stable order when the comparator is consistent,
\* an order the engine chooses (ECMAScript: implementation-defined) when not
sortOutcomes(s, sort) ==
    IF ConsistentComparator(s, sort) THEN {StableSort(s, sort)} ELSE Arrangements(s)

\* getDisplayBills: the arrays it can return
displayBills(bs, filter, sort) == sortOutcomes(filteredBills(bs, filter), sort)

initialTotals == [Paid |-> Num(0), Unpaid |-> Num(0), Pending |-> Num(0)]

\* a reduce step without the hasOwnProperty test: a status that is no key of
\* the totals becomes one
addToTotalsUnchecked(acc, bill) ==
    [s \in DOMAIN acc \cup {bill.status} |->
        IF s = bill.status
        THEN JsAdd(IF s \in DOMAIN acc THEN acc[s] ELSE Undef, bill.amount.value)
        ELSE acc[s]]

\* getTotalsByStatus: one step of the reduce
addToTotals(acc, bill) ==
    IF bill.status \in DOMAIN acc
    THEN [acc EXCEPT ![bill.status] = JsAdd(acc[bill.status], bill.amount.value)]
    ELSE acc

\* getTotalsByStatus: this.bills.reduce(..., initialTotals) from the left
RECURSIVE totalsByStatus(_)
totalsByStatus(bs) ==
    IF bs = <<>> THEN initialTotals
    ELSE addToTotals(totalsByStatus(SubSeq(bs, 1, Len(bs) - 1)), bs[Len(bs)])

\* ------------------------------------------------------------------------
\* State
\* ------------------------------------------------------------------------
VARIABLES
    bills,          \* BillManager.bills
    currentFilter,  \* BillManager.currentFilter
    currentSort,    \* BillManager.currentSort
    shouldFail,     \* ApiService._shouldFail
    storage,        \* localStorage under the key 'myBills'
    timers,         \* the setTimeout callbacks not yet run, oldest first
    now,            \* Date.now()
    calls,          \* manager calls that touch the store, so far
    ret,            \* the last manager call: its name, its id argument, how it settled
    display,        \* what the last getDisplayBills returned
    totals,         \* what the last getTotalsByStatus returned
    fetched,        \* what the last fetchBills resolved with
    saved,          \* the argument of the last saveBills that resolved
    isLoading,      \* BillManager.isLoading, which script.js reads
    screen,         \* the page: the bill cards and the totals script.js drew last
    page            \* script.js: not yet run, awaiting initialize, or past it

vars == <<bills, currentFilter, currentSort, shouldFail, storage, timers, now,
          calls, ret, display, totals, fetched, saved, isLoading, screen, page>>

ui == <<isLoading, screen, page>>

view == <<currentFilter, currentSort>>

store == <<shouldFail, storage, saved>>

\* a call as its caller sees it: the method, the id it was given, whether a
\* bill of the collection had the id and how its promise stands; failing is,
\* for a call that touches the store and is awaited before the next call is
\* made, the flag of the store as it stood when the call was made
Call(op, id, hit, status, error, failing) ==
    [op |-> op, id |-> id, hit |-> hit, status |-> status, error |-> error,
     failing |-> failing]

\* a setTimeout callback of the store with the call that awaits its promise
Timer(kind, call, data) ==
    [kind |-> kind, op |-> call.op, id |-> call.id, hit |-> call.hit, data |-> data]

HasId(bs, id) == \E i \in 1..Len(bs) : bs[i].id = id

\* the values the last synchronous getters returned are those of no call
NoValue ==
    /\ display' = <<>>
    /\ totals' = initialTotals
    /\ fetched' = <<>>

Idle == timers = <<>>

Init ==
    /\ bills = <<>>
    /\ currentFilter = "All"
    /\ currentSort = "default"
    /\ shouldFail = FALSE
    /\ storage = NoItem
    /\ timers = <<>>
    /\ now = 0
    /\ calls = 0
    /\ ret = Call("none", "", FALSE, "none", "", FALSE)
    /\ display = <<>>
    /\ totals = initialTotals
    /\ fetched = <<>>
    /\ saved = [some |-> FALSE, data |-> <<>>]
    /\ isLoading = FALSE
    /\ screen = [drawn |-> FALSE, list |-> <<>>, totals |-> initialTotals]
    /\ page = "unloaded"

\* ------------------------------------------------------------------------
\* Operations
\* ------------------------------------------------------------------------
\* a _saveBillsToLocalStorage that calls saveBills twice
saveBillsCalledTwice(call, bs) ==
    timers' = Append(Append(timers, Timer("save", call, billsPlainData(bs))),
                     Timer("save", call, billsPlainData(bs)))

\* _saveBillsToLocalStorage up to its await: saveBills(billsPlainData) sets a timer
saveBillsCalled(call, bs) ==
    timers' = Append(timers, Timer("save", call, billsPlainData(bs)))

\* addBill(newBill), up to the await of the save
addBill(newBill) ==
    /\ calls < MaxCalls
    /\ Len(bills) < MaxBills
    /\ bills' = pushBill(bills, newBill)
    /\ ret' = Call("addBill", newBill.id, HasId(bills, newBill.id), "pending", "",
                   shouldFail)
    /\ saveBillsCalled(ret', bills')
    /\ calls' = calls + 1
    /\ NoValue
    /\ UNCHANGED <<view, store, now>>

\* deleteBill(id), up to the await of the save
deleteBill(id) ==
    /\ calls < MaxCalls
    /\ bills' = filterOutId(bills, id)
    /\ ret' = Call("deleteBill", id, HasId(bills, id), "pending", "", shouldFail)
    /\ saveBillsCalled(ret', bills')
    /\ calls' = calls + 1
    /\ NoValue
    /\ UNCHANGED <<view, store, now>>

\* an updateBill that returns without a save when no bill has the id
updateBillReturnsEarly(updatedData) ==
    /\ calls < MaxCalls
    /\ bills' = mapUpdate(bills, updatedData)
    /\ IF HasId(bills, updatedData.id)
       THEN /\ ret' = Call("updateBill", updatedData.id, TRUE, "pending", "", shouldFail)
            /\ saveBillsCalled(ret', bills')
       ELSE /\ ret' = Call("updateBill", updatedData.id, FALSE, "resolved", "", shouldFail)
            /\ timers' = timers
    /\ calls' = calls + 1
    /\ NoValue
    /\ UNCHANGED <<view, store, now>>

\* updateBill(updatedData), up to the await of the save
updateBill(updatedData) ==
    /\ calls < MaxCalls
    /\ bills' = mapUpdate(bills, updatedData)
    /\ ret' = Call("updateBill", updatedData.id, HasId(bills, updatedData.id),
                   "pending", "", shouldFail)
    /\ saveBillsCalled(ret', bills')
    /\ calls' = calls + 1
    /\ NoValue
    /\ UNCHANGED <<view, store, now>>

\* initialize(), up to the await of the fetch: fetchBills() sets a timer
initialize ==
    /\ calls < MaxCalls
    /\ ret' = Call("initialize", "", FALSE, "pending", "", shouldFail)
    /\ timers' = Append(timers, Timer("fetch", ret', <<>>))
    /\ calls' = calls + 1
    /\ NoValue
    /\ UNCHANGED <<bills, view, store, now>>

\* a saveBills that reads _shouldFail as it is called, outside the callback
saveBillsTimerFlagAtCall ==
    /\ timers # <<>>
    /\ Head(timers).kind = "save"
    /\ storage' = saveBillsStore(ret.failing, storage, Head(timers).data)
    /\ ret' = Call(Head(timers).op, Head(timers).id, Head(timers).hit,
                   saveBillsSettles(ret.failing),
                   IF saveBillsSettles(ret.failing) = "rejected" THEN SaveError ELSE "",
                   ret.failing)
    /\ saved' = IF saveBillsSettles(ret.failing) = "resolved"
                THEN [some |-> TRUE, data |-> Head(timers).data] ELSE saved
    /\ timers' = Tail(timers)
    /\ now' = now + delay
    /\ NoValue
    /\ UNCHANGED <<bills, view, shouldFail, calls>>

\* the timer of a saveBills fires, the delay after it was set: the promise
\* settles and the awaiting addBill, deleteBill or updateBill resolves or
\* rejects with it
saveBillsTimer ==
    /\ timers # <<>>
    /\ Head(timers).kind = "save"
    /\ storage' = saveBillsStore(shouldFail, storage, Head(timers).data)
    /\ ret' = Call(Head(timers).op, Head(timers).id, Head(timers).hit,
                   saveBillsSettles(shouldFail),
                   IF saveBillsSettles(shouldFail) = "rejected" THEN SaveError ELSE "",
                   ret.failing)
    /\ saved' = IF saveBillsSettles(shouldFail) = "resolved"
                THEN [some |-> TRUE, data |-> Head(timers).data] ELSE saved
    /\ timers' = Tail(timers)
    /\ now' = now + delay
    /\ NoValue
    /\ UNCHANGED <<bills, view, shouldFail, calls>>

\* the timer of a fetchBills fires, the delay after it was set: the promise
\* resolves, and
\* _loadBillsFromLocalStorage and initialize run on to their ends
fetchBillsTimer ==
    /\ timers # <<>>
    /\ Head(timers).kind = "fetch"
    /\ fetched' = fetchBillsValue(storage)
    /\ now' = now + delay
    /\ bills' = rehydrate(fetched', now')
    /\ ret' = Call("initialize", "", FALSE, "resolved", "", ret.failing)
    /\ timers' = Tail(timers)
    /\ display' = <<>>
    /\ totals' = initialTotals
    /\ UNCHANGED <<view, store, calls>>

\* toggleFailure(state)
toggleFailure(state) ==
    /\ shouldFail' = state
    /\ UNCHANGED <<bills, view, storage, saved, timers, now, calls, ret,
                   display, totals, fetched>>

\* a setFilter that puts the sort back to the default
setFilterResetsSort(newFilter) ==
    /\ currentFilter' = newFilter
    /\ currentSort' = "default"
    /\ ret' = Call("setFilter", "", FALSE, "returned", "", FALSE)
    /\ NoValue
    /\ UNCHANGED <<bills, store, timers, now, calls>>

\* setFilter(newFilter)
setFilter(newFilter) ==
    /\ currentFilter' = newFilter
    /\ ret' = Call("setFilter", "", FALSE, "returned", "", FALSE)
    /\ NoValue
    /\ UNCHANGED <<bills, currentSort, store, timers, now, calls>>

\* setSort(newSort)
setSort(newSort) ==
    /\ currentSort' = newSort
    /\ ret' = Call("setSort", "", FALSE, "returned", "", FALSE)
    /\ NoValue
    /\ UNCHANGED <<bills, currentFilter, store, timers, now, calls>>

\* a getDisplayBills that sorts filteredBills itself, which is this.bills when
\* the filter is All
getDisplayBillsInPlace ==
    /\ display' \in displayBills(bills, currentFilter, currentSort)
    /\ bills' = IF currentFilter = "All" THEN display' ELSE bills
    /\ ret' = Call("getDisplayBills", "", FALSE, "returned", "", FALSE)
    /\ totals' = initialTotals
    /\ fetched' = <<>>
    /\ UNCHANGED <<view, store, timers, now, calls>>

\* getDisplayBills()
getDisplayBills ==
    /\ display' \in displayBills(bills, currentFilter, currentSort)
    /\ ret' = Call("getDisplayBills", "", FALSE, "returned", "", FALSE)
    /\ totals' = initialTotals
    /\ fetched' = <<>>
    /\ UNCHANGED <<bills, view, store, timers, now, calls>>

\* getTotalsByStatus()
getTotalsByStatus ==
    /\ totals' = totalsByStatus(bills)
    /\ ret' = Call("getTotalsByStatus", "", FALSE, "returned", "", FALSE)
    /\ display' = <<>>
    /\ fetched' = <<>>
    /\ UNCHANGED <<bills, view, store, timers, now, calls>>

\* a millisecond passes with no timer due
Tick ==
    /\ now % delay < MaxClock
    /\ now' = now + 1
    /\ UNCHANGED <<bills, view, store, timers, calls, ret, display, totals, fetched>>

\* the time of the fixtures of the tests: the Bills are built before any call
FixtureTime == 0

\* when a caller built the Bill it passes: before any call, as the fixtures
\* of the tests are, or as it makes the call, as handleSubmit does
ConstructionTimes == {FixtureTime, now}

\* the ids a caller passes: those of the collection and one of no bill
CallerIds == {bills[i].id : i \in 1..Len(bills)} \cup {AbsentId}

\* The manager and the store, as the tests drive them, without a page.  Every
\* call that touches the store is awaited before the next call is made.
Next ==
    \/ Idle /\ (\E d \in BillForms : \E t \in ConstructionTimes : addBill(Bill(d, t)))
            /\ UNCHANGED ui
    \/ Idle /\ (\E id \in CallerIds : deleteBill(id)) /\ UNCHANGED ui
    \/ Idle /\ (\E id \in CallerIds : \E p \in Patches :
                   updateBill([id |-> id, amount |-> p.amount, status |-> p.status]))
            /\ UNCHANGED ui
    \/ Idle /\ initialize /\ UNCHANGED ui
    \/ saveBillsTimer /\ UNCHANGED ui
    \/ fetchBillsTimer /\ UNCHANGED ui
    \/ (\E state \in BOOLEAN : toggleFailure(state)) /\ UNCHANGED ui

Spec == Init /\ [][Next]_vars

\* The manager and its view: the filter, the sort and the getters, on the
\* collections that awaited calls with a store that does not fail build from
\* Bills built before the calls, as the tests of the filter and the sort do.
NextView ==
    \/ Idle /\ (\E d \in BillForms : addBill(Bill(d, FixtureTime))) /\ UNCHANGED ui
    \/ Idle /\ (\E id \in CallerIds : deleteBill(id)) /\ UNCHANGED ui
    \/ Idle /\ (\E id \in CallerIds : \E p \in Patches :
                   updateBill([id |-> id, amount |-> p.amount, status |-> p.status]))
            /\ UNCHANGED ui
    \/ saveBillsTimer /\ UNCHANGED ui
    \/ Idle /\ (\E f \in Filters : setFilter(f)) /\ UNCHANGED ui
    \/ Idle /\ (\E o \in Sorts : setSort(o)) /\ UNCHANGED ui
    \/ Idle /\ getDisplayBills /\ UNCHANGED ui
    \/ Idle /\ getTotalsByStatus /\ UNCHANGED ui

SpecView == Init /\ [][NextView]_vars

\* ------------------------------------------------------------------------
\* script.js: the page
\* ------------------------------------------------------------------------
\* setLoading(state)
setLoading(state) == isLoading' = state

\* renderBills(): the cards of getDisplayBills()
renderBills(bs, filter, sort) ==
    \E list \in displayBills(bs, filter, sort) :
        screen' = [drawn |-> TRUE, list |-> list, totals |-> screen.totals]

\* renderBills(); calculateAndRenderTotal()
renderBillsAndTotal(bs, filter, sort) ==
    \E list \in displayBills(bs, filter, sort) :
        screen' = [drawn |-> TRUE, list |-> list, totals |-> totalsByStatus(bs)]

\* what the forms of the page submit.  The add form has no id field; its
\* amount is the text of a required number input, its status and currency
\* the option of a select.  The edit form has an amount and a status.
FormBills ==
    { [id |-> Undefined, type |-> "Energy", name |-> Undefined, paymentMethod |-> "Card",
       amount |-> Str(<<"2", "0">>), currency |-> "EUR", status |-> "Pending"],
      [id |-> Undefined, type |-> "Streaming", name |-> "Disney", paymentMethod |-> "Debit",
       amount |-> Str(<<"5">>), currency |-> "USD", status |-> "Paid"] }

FormPatches == {p \in Patches : p.amount.t = "string" /\ p.amount.s # <<>>
                                  /\ p.status # Undefined}

\* the sort options and the filter buttons the user of the page picks
PageSorts == {"default", "amount-high-low"}

PageFilters == {"All", "Paid"}

\* the ids of the Edit and Delete buttons of the cards
ButtonIds == {screen.list[i].id : i \in 1..Len(screen.list)}

\* init(), up to the await of initialize
init ==
    /\ page = "unloaded"
    /\ setLoading(TRUE)
    /\ initialize
    /\ page' = "fetching"
    /\ UNCHANGED screen

\* handleSubmit(event), up to the await of addBill
handleSubmit(billData) ==
    /\ page # "unloaded"
    /\ setLoading(TRUE)
    /\ addBill(Bill(billData, now))
    /\ UNCHANGED <<screen, page>>

\* handleEditSubmit(event), up to the await of updateBill
handleEditSubmit(updatedData) ==
    /\ page # "unloaded"
    /\ setLoading(TRUE)
    /\ updateBill(updatedData)
    /\ UNCHANGED <<screen, page>>

\* the click listener of the list on a Delete button: deleteBill(billId) of
\* script.js, up to the await of the deleteBill of the manager
deleteClick(id) ==
    /\ page # "unloaded"
    /\ setLoading(TRUE)
    /\ deleteBill(id)
    /\ UNCHANGED <<screen, page>>

\* the change listener of the sort select
sortChange(newSort) ==
    /\ page # "unloaded"
    /\ setSort(newSort)
    /\ renderBills(bills, currentFilter, newSort)
    /\ UNCHANGED <<isLoading, page>>

\* the click listener of the filter buttons
filterClick(newFilter) ==
    /\ page # "unloaded"
    /\ setFilter(newFilter)
    /\ renderBills(bills, newFilter, currentSort)
    /\ UNCHANGED <<isLoading, page>>

\* the save of a handler settles: the handler runs on from its await, through
\* its try or its catch, to the end of its finally
handlerAfterSave ==
    /\ saveBillsTimer
    /\ IF Head(timers).op = "addBill" /\ saveBillsSettles(shouldFail) = "rejected"
       THEN UNCHANGED screen
       ELSE renderBillsAndTotal(bills, currentFilter, currentSort)
    /\ setLoading(FALSE)
    /\ UNCHANGED page

\* the fetch of initialize settles: init runs on from its await to its end
initAfterFetch ==
    /\ fetchBillsTimer
    /\ renderBillsAndTotal(bills', currentFilter, currentSort)
    /\ setLoading(FALSE)
    /\ page' = "done"

\* The page: init() as the script is loaded, then the listeners in any order
\* the user and the timers give.
NextPage ==
    \/ init
    \/ \E d \in FormBills : handleSubmit(d)
    \/ \E id \in ButtonIds : \E p \in FormPatches :
          handleEditSubmit([id |-> id, amount |-> p.amount, status |-> p.status])
    \/ \E id \in ButtonIds : deleteClick(id)
    \/ \E o \in PageSorts : sortChange(o)
    \/ \E f \in PageFilters : filterClick(f)
    \/ handlerAfterSave
    \/ initAfterFetch
    \/ (\E state \in BOOLEAN : toggleFailure(state)) /\ UNCHANGED ui
    \/ Tick /\ UNCHANGED ui

SpecPage == Init /\ [][NextPage]_vars

\* The page of a user who clicks no Delete button: init(), the add and the
\* edit form, the sort and the filter, in any order.
NextPageNoDelete ==
    \/ init
    \/ \E d \in FormBills : handleSubmit(d)
    \/ \E id \in ButtonIds : \E p \in FormPatches :
          handleEditSubmit([id |-> id, amount |-> p.amount, status |-> p.status])
    \/ \E o \in PageSorts : sortChange(o)
    \/ \E f \in PageFilters : filterClick(f)
    \/ handlerAfterSave
    \/ initAfterFetch
    \/ (\E state \in BOOLEAN : toggleFailure(state)) /\ UNCHANGED ui
    \/ Tick /\ UNCHANGED ui

SpecPageNoDelete == Init /\ [][NextPageNoDelete]_vars

\* ------------------------------------------------------------------------
\* Properties
\* ------------------------------------------------------------------------
Statuses == {"Paid", "Unpaid", "Pending"}

NotFound == [id |-> Undefined]

\* bills.find(bill => bill.id === id): the first bill with the id
Lookup(bs, id) ==
    IF HasId(bs, id)
    THEN bs[CHOOSE i \in 1..Len(bs) : bs[i].id = id /\ \A j \in 1..(i - 1) : bs[j].id # id]
    ELSE NotFound

\* C1: addBill makes the collection one longer, and a lookup by the id of the
\* new bill then returns the new bill.
C1_AddBillRetrievable ==
    [][\A d \in BillForms : \A t \in ConstructionTimes :
          addBill(Bill(d, t)) =>
              /\ Len(bills') = Len(bills) + 1
              /\ Lookup(bills', Bill(d, t).id) = Bill(d, t)]_vars

\* C2: after deleteBill(id), and until the next call, no bill of the
\* collection has that id.
C2_DeletedIdAbsent ==
    ret.op = "deleteBill" => ~HasId(bills, ret.id)

C2_Witness ==
    /\ ret.op = "deleteBill"
    /\ ret.hit
    /\ ret.status = "resolved"
    /\ bills # <<>>
    /\ ~HasId(bills, ret.id)

\* C3: updateBill leaves every bill with another id as it was, and leaves the
\* id, type, name, paymentMethod and amount.currency of a bill with the id as
\* they were; the collection keeps its length.
C3_UpdateFrame ==
    [][\A id \in CallerIds : \A p \in Patches :
          updateBill([id |-> id, amount |-> p.amount, status |-> p.status]) =>
              /\ Len(bills') = Len(bills)
              /\ \A i \in 1..Len(bills) :
                    IF bills[i].id = id
                    THEN /\ bills'[i].id = bills[i].id
                         /\ bills'[i].type = bills[i].type
                         /\ bills'[i].name = bills[i].name
                         /\ bills'[i].paymentMethod = bills[i].paymentMethod
                         /\ bills'[i].amount.currency = bills[i].amount.currency
                    ELSE bills'[i] = bills[i]]_vars

C3_Witness ==
    /\ ret.op = "updateBill"
    /\ ret.hit
    /\ ret.status = "pending"
    /\ \E i \in 1..Len(bills) : \E j \in 1..Len(bills) :
          /\ bills[i].id = ret.id
          /\ bills[i].amount.currency = "USD"
          /\ bills[i].amount.value = Num(20)
          /\ bills[j].id # ret.id

\* the bills of bs with the status, in the order of bs
WithStatus(bs, status) == SelectSeq(bs, LAMBDA bill : bill.status = status)

\* what the filter selects: every bill when it is All
Selected(bs, filter) ==
    SelectSeq(bs, LAMBDA bill : filter = "All" \/ bill.status = filter)

\* C4: with the default sort, getDisplayBills returns the bills whose status is
\* the filter (all of them when the filter is All), in the order of the
\* collection.
C4_DefaultSortFilters ==
    (ret.op = "getDisplayBills" /\ currentSort = "default") =>
        /\ display = Selected(bills, currentFilter)
        /\ currentFilter # "All" =>
              \A i \in 1..Len(display) : display[i].status = currentFilter

C4_Witness ==
    /\ ret.op = "getDisplayBills"
    /\ currentSort = "default"
    /\ currentFilter = "Paid"
    /\ Len(display) = 2
    /\ Len(bills) = 3
    /\ display[1] # display[2]

\* the sum of the amount.value of the bills of bs, from the left
RECURSIVE SumOfValues(_)
SumOfValues(bs) ==
    IF bs = <<>> THEN Num(0)
    ELSE JsAdd(SumOfValues(SubSeq(bs, 1, Len(bs) - 1)), bs[Len(bs)].amount.value)

\* C5: getTotalsByStatus returns, under exactly the keys Paid, Unpaid and
\* Pending, the sums of amount.value over the bills with that status; a bill
\* with another status is in no sum.
C5_TotalsByStatus ==
    ret.op = "getTotalsByStatus" =>
        /\ DOMAIN totals = Statuses
        /\ \A s \in Statuses : totals[s] = SumOfValues(WithStatus(bills, s))

C5_Witness ==
    /\ ret.op = "getTotalsByStatus"
    /\ \E i \in 1..Len(bills) :
          bills[i].status \notin Statuses /\ bills[i].amount.value = Num(7)
    /\ totals.Paid = Num(5)
    /\ totals.Unpaid = Num(0)
    /\ Len(bills) = 3

\* a is an arrangement of b: the same bills, each as often
IsArrangement(a, b) ==
    /\ Len(a) = Len(b)
    /\ \A x \in {a[i] : i \in 1..Len(a)} \cup {b[i] : i \in 1..Len(b)} :
          Cardinality({i \in 1..Len(a) : a[i] = x})
              = Cardinality({i \in 1..Len(b) : b[i] = x})

\* x > y in JavaScript: false when an operand is NaN
JsGreater(x, y) == x.t = "number" /\ y.t = "number" /\ x.n > y.n

WithValue(bs, v) == SelectSeq(bs, LAMBDA bill : bill.amount.value = v)

\* C6: with an amount sort, getDisplayBills returns an arrangement of the
\* filtered bills in which no bill comes before one of smaller (low to high) or
\* greater (high to low) amount.value, and bills of equal amount.value are in
\* the order of the collection.
C6_AmountSort ==
    (ret.op = "getDisplayBills"
        /\ currentSort \in {"amount-low-high", "amount-high-low"}) =>
        /\ IsArrangement(display, Selected(bills, currentFilter))
        /\ \A i \in 1..Len(display) : \A j \in (i + 1)..Len(display) :
              IF currentSort = "amount-low-high"
              THEN ~JsGreater(display[i].amount.value, display[j].amount.value)
              ELSE ~JsGreater(display[j].amount.value, display[i].amount.value)
        /\ \A i \in 1..Len(display) :
              WithValue(display, display[i].amount.value)
                  = WithValue(Selected(bills, currentFilter), display[i].amount.value)

\* the name of a bill when it has one, its type when it has none
DisplayName(bill) ==
    IF bill.name # Undefined /\ bill.name # "" THEN bill.name ELSE bill.type

\* C7: with the name sort, getDisplayBills returns an arrangement of the
\* filtered bills in ascending order of 'the name, or the type of a bill
\* without a name'.
C7_NameSort ==
    (ret.op = "getDisplayBills" /\ currentSort = "name-az") =>
        /\ IsArrangement(display, Selected(bills, currentFilter))
        /\ \A i \in 1..Len(display) : \A j \in (i + 1)..Len(display) :
              Rank(DisplayName(display[i])) <= Rank(DisplayName(display[j]))

C7_Witness ==
    /\ ret.op = "getDisplayBills"
    /\ currentSort = "name-az"
    /\ Len(display) = 3
    /\ display # Selected(bills, currentFilter)
    /\ ~Truthy(display[1].name)
    /\ Truthy(display[2].name)
    /\ ~Truthy(display[3].name)

\* C8: a fetchBills that follows a saveBills(billsData) that resolved resolves
\* with a value equal to billsData.
C8_SaveFetchRoundTrip ==
    (ret.op = "initialize" /\ ret.status = "resolved" /\ saved.some) =>
        fetched = saved.data

\* C9: a saveBills whose timer fires with the failure flag set rejects and
\* leaves localStorage as it was.
C9_FailedSaveKeepsStore ==
    [][(saveBillsTimer /\ shouldFail) =>
          /\ ret'.status = "rejected"
          /\ storage' = storage]_vars

C9_Witness ==
    /\ ret.status = "rejected"
    /\ shouldFail
    /\ storage.item
    /\ storage.text # JSONstringify(billsPlainData(bills))

\* C10: when the saveBills of an addBill, updateBill or deleteBill fails, the
\* call rejects with the error of the store, the collection stays as the call
\* changed it and localStorage stays as it was.
C10_FailedSaveNoRollback ==
    [][(saveBillsTimer /\ shouldFail) =>
          /\ ret'.op \in {"addBill", "updateBill", "deleteBill"}
          /\ ret'.op = ret.op
          /\ ret'.status = "rejected"
          /\ ret'.error = SaveError
          /\ bills' = bills
          /\ billsPlainData(bills') = Head(timers).data
          /\ storage' = storage]_vars

C10_Witness ==
    /\ ret.op = "deleteBill"
    /\ ret.hit
    /\ ret.status = "rejected"
    /\ ret.error = SaveError
    /\ storage.item
    /\ Len(storage.text) > Len(bills)
    /\ ~HasId(bills, ret.id)

Mutations == {"addBill", "updateBill", "deleteBill"}

\* C11: while an addBill, updateBill or deleteBill is awaited, exactly one
\* saveBills is pending, that of the call, with the collection as the call
\* changed it; once it has settled, resolved or rejected, none is pending.
C11_OneSavePerMutation ==
    /\ (ret.op \in Mutations /\ ret.status = "pending") =>
          timers = <<Timer("save", ret, billsPlainData(bills))>>
    /\ (ret.op \in Mutations /\ ret.status \in {"resolved", "rejected"}) =>
          timers = <<>>

C11_Witness ==
    /\ ret.op = "updateBill"
    /\ ret.hit
    /\ ret.status = "rejected"
    /\ timers = <<>>
    /\ storage.item
    /\ storage.text # JSONstringify(billsPlainData(bills))

\* C12: the amount.value of every bill of the collection is a finite number.
C12_AmountIsNumber ==
    \A i \in 1..Len(bills) : bills[i].amount.value.t = "number"

\* C13: the status of every bill of the collection is Paid, Unpaid or Pending.
C13_StatusEnumerated ==
    \A i \in 1..Len(bills) : bills[i].status \in Statuses

\* C14: no two bills of the collection have the same id.
C14_IdsDistinct ==
    \A i \in 1..Len(bills) : \A j \in 1..Len(bills) :
        i # j => bills[i].id # bills[j].id

\* C15: a setFilter changes neither the sort, the collection nor localStorage
\* and sets no timer; a setSort changes neither the filter, the collection nor
\* localStorage and sets no timer.
C15_SettersFrame ==
    [][/\ ret'.op = "setFilter" =>
             <<currentSort, bills, storage, timers>>'
                 = <<currentSort, bills, storage, timers>>
       /\ ret'.op = "setSort" =>
             <<currentFilter, bills, storage, timers>>'
                 = <<currentFilter, bills, storage, timers>>]_vars

C15_Witness ==
    /\ ret.op = "setFilter"
    /\ currentFilter = "Paid"
    /\ currentSort = "name-az"
    /\ Len(bills) = 2
    /\ storage.item

\* C16: a getDisplayBills changes neither the collection, the filter nor the
\* sort.
C16_DisplayFrame ==
    [][ret'.op = "getDisplayBills" =>
          <<bills, currentFilter, currentSort>>' = <<bills, currentFilter, currentSort>>]_vars

C16_Witness ==
    /\ ret.op = "getDisplayBills"
    /\ currentFilter = "All"
    /\ currentSort = "amount-high-low"
    /\ Len(bills) = 3
    /\ display # bills

\* C17: an initialize that finds in localStorage the collection as the last
\* save that resolved wrote it makes the collection equal to that collection.
C17_InitializeRestores ==
    [][(fetchBillsTimer /\ saved.some /\ billsPlainData(bills) = saved.data) =>
          bills' = bills]_vars

\* C18: at most one operation of the manager that touches the store
\* (initialize, addBill, updateBill, deleteBill) is in flight at any time on
\* the page: no handler starts one while the timer of an earlier one is set.
C18_OneStoreOperationInFlight == Len(timers) <= 1

\* C19: the page draws the list or the totals (getDisplayBills,
\* getTotalsByStatus) only once initialize has completed, whatever the order
\* of the events of its listeners.
C19_NoDisplayBeforeInitialize == [][screen' # screen => page' = "done"]_vars

\* C20: when an add, edit or delete handler of the page has finished, its
\* save resolved or rejected, the list on the page is getDisplayBills() and
\* the totals are getTotalsByStatus() of the collection as it is.
C20_HandlerRerenders ==
    (ret.op \in Mutations /\ ret.status \in {"resolved", "rejected"}) =>
        /\ screen.list \in displayBills(bills, currentFilter, currentSort)
        /\ screen.totals = totalsByStatus(bills)

\* the index of the first bill with the id, and a collection without the
\* bill at an index
FirstWithId(bs, id) ==
    CHOOSE i \in 1..Len(bs) : bs[i].id = id /\ \A j \in 1..(i - 1) : bs[j].id # id

WithoutIndex(bs, i) == SubSeq(bs, 1, i - 1) \o SubSeq(bs, i + 1, Len(bs))

\* the indices of the bills with another id, and the k-th of them
OtherIds(bs, id) == {i \in 1..Len(bs) : bs[i].id # id}

KthOther(bs, id, k) ==
    CHOOSE i \in OtherIds(bs, id) : Cardinality({j \in OtherIds(bs, id) : j <= i}) = k

C22_PartialPatchKeepsOther ==
    [][\A id \in CallerIds : \A p \in Patches :
          updateBill([id |-> id, amount |-> p.amount, status |-> p.status]) =>
              \A i \in 1..Len(bills) :
                  bills[i].id = id =>
                      /\ p.status = Undefined => bills'[i].status = bills[i].status
                      /\ p.amount = Undef => bills'[i].amount.value = bills[i].amount.value]_vars

\* C23: updateBill and deleteBill with an id that no bill of the collection
\* has leave the collection as it was, the same bills in the same order, and
\* still call saveBills, with the collection unchanged.
C23_AbsentIdSavesUnchanged ==
    [][\A id \in CallerIds :
          (/\ ~HasId(bills, id)
           /\ \/ deleteBill(id)
              \/ \E p \in Patches :
                    updateBill([id |-> id, amount |-> p.amount, status |-> p.status])) =>
              /\ bills' = bills
              /\ Len(timers') = Len(timers) + 1
              /\ timers'[Len(timers')].kind = "save"
              /\ timers'[Len(timers')].data = billsPlainData(bills)]_vars

C23_Witness ==
    /\ ret.op = "updateBill"
    /\ ret.id = AbsentId
    /\ ~ret.hit
    /\ ret.status = "resolved"
    /\ Len(bills) = 2
    /\ saved.some
    /\ saved.data = billsPlainData(bills)
    /\ storage.text = JSONstringify(billsPlainData(bills))

\* a step in which the timer of a saveBills fires
SaveFires == timers # <<>> /\ Head(timers).kind = "save" /\ timers' = Tail(timers)

\* C24, as claimed: a saveBills that was called before toggleFailure and whose
\* delay has not elapsed completes as the flag stood when it was called: it
\* rejects and leaves localStorage alone if the flag was set then, and
\* resolves having written its data if not.
C24_FlagAtCallDecides ==
    [][SaveFires =>
          IF ret.failing
          THEN ret'.status = "rejected" /\ storage' = storage
          ELSE ret'.status = "resolved" /\ storage'.text = JSONstringify(Head(timers).data)]_vars

\* C24, amended: a saveBills completes as the flag stands when its delay
\* elapses, also when it was called before the toggleFailure that set the
\* flag so: it rejects and leaves localStorage alone if the flag is set then,
\* and resolves having written its data if not.
C24_FlagAtTimerDecides ==
    [][SaveFires =>
          IF shouldFail
          THEN ret'.status = "rejected" /\ storage' = storage
          ELSE ret'.status = "resolved" /\ storage'.text = JSONstringify(Head(timers).data)]_vars

C24_Witness ==
    /\ ret.op = "addBill"
    /\ ~ret.failing
    /\ ret.status = "rejected"
    /\ timers = <<>>
    /\ bills # <<>>
    /\ ~storage.item

\* C25: the collection keeps the order of insertion under every mutation:
\* addBill puts the new bill last behind the bills as they were, updateBill
\* keeps the length and every bill at its position, and deleteBill keeps the
\* bills that remain in the order they had.
C25_InsertionOrderKept ==
    [][/\ \A d \in BillForms : \A t \in ConstructionTimes :
             addBill(Bill(d, t)) =>
                 /\ Len(bills') = Len(bills) + 1
                 /\ bills'[Len(bills')] = Bill(d, t)
                 /\ \A i \in 1..Len(bills) : bills'[i] = bills[i]
       /\ \A id \in CallerIds :
             (\E p \in Patches :
                 updateBill([id |-> id, amount |-> p.amount, status |-> p.status])) =>
                 /\ Len(bills') = Len(bills)
                 /\ \A i \in 1..Len(bills) : bills'[i].id = bills[i].id
       /\ \A id \in CallerIds :
             deleteBill(id) =>
                 \A k, l \in 1..Len(bills') :
                     k < l => \E i, j \in 1..Len(bills) :
                                 i < j /\ bills[i] = bills'[k] /\ bills[j] = bills'[l]]_vars

C25_Witness ==
    /\ ret.op = "deleteBill"
    /\ ret.hit
    /\ calls = 4
    /\ Len(bills) = 2
    /\ bills[1].type = "Broadband"
    /\ bills[2].type = "Energy"

\* C26: on the page, in any interleaving of the handlers and the timers,
\* whenever no timer of the store is set and the save that completed last
\* resolved, localStorage holds the collection as it is, the same bills in
\* the same order.
C26_StoreMatchesCollection ==
    (timers = <<>> /\ ret.op \in Mutations /\ ret.status = "resolved") =>
        /\ storage.item
        /\ storage.text = JSONstringify(billsPlainData(bills))

\* C27: on a page where no delete is called, once an addBill has resolved the
\* bill it added is in the collection, in any interleaving with initialize,
\* other adds and updates: an add made while initialize is fetching is not
\* dropped when the fetch completes.
C27_AddedBillStays ==
    (ret.op = "addBill" /\ ret.status = "resolved") => HasId(bills, ret.id)

====
